---- MODULE Spec2Model ----
(***************************************************************************)
(* wiki_mapper: the multi-machine crawler (main_multi_machine.py), its     *)
(* single-machine variant (main.py) and the shard merger                   *)
(* (merge_databases.py).                                                   *)
(*                                                                         *)
(* A store is one SQLite file: articles is the table in id order (the id   *)
(* of a row is its index, ids are AUTOINCREMENT and rows are never         *)
(* deleted), links is the set of (from_article_id, to_article_title)       *)
(* pairs, which UNIQUE(from_article_id, to_article_title) makes a set.     *)
(***************************************************************************)
EXTENDS Integers, Sequences, FiniteSets, TLC

\* ------------------------------------------------------------------ bounds
MaxMachines == 2
MaxInputs == 2
MaxBatchSize == 1
MaxTime == 1
LongInputLen == 1001
MaxFetches == 2

\* ------------------------------------------------------- program constants
DefaultBatchSize == 100
CheckpointEvery == 1000

\* A path that names no file.
NoSuchDb == -1

VARIABLES
    total_machines,  \* --total-machines, the same on every machine
    batch_size,      \* --batch-size
    now,             \* CURRENT_TIMESTAMP
    db,              \* db[m]: committed content of wiki_mapping_machine_<m>.db
    exists,          \* exists[m]: the file of machine m has been created
    pc,              \* pc[m]: position of the crawler process of machine m
    limit,           \* limit[m]: batch_size parameter of the running batch_run
    articles,        \* articles[m]: the batch batch_run iterates over
    idx,             \* idx[m]: position in articles[m]
    links,           \* links[m]: result of get_article_links for the current title
    fetch_raised,    \* fetch_raised[m]: that get_article_links took its except branch
    save_raised,     \* save_raised[m]: the save_article_links just made took its except branch
    fetch_ok,        \* titles for which some get_article_links succeeded
    fetcher_failed,  \* some get_article_links has taken its except branch
    out,             \* committed content of the merge output store
    mpc,             \* position of the merger process
    inputs,          \* input_databases of the running merge
    midx,            \* position in inputs
    success_count,   \* success_count of merge_multiple_databases
    results,         \* return values of the merge_database calls so far
    work,            \* the output as the open connection of merge_database sees it
    article_count,   \* article_count of the running merge_database
    fetches,         \* history: fetches[title], the get_article_links calls made for it
    save_failed      \* history: some save_article_links took its except branch

crawl_vars == <<db, exists, pc, limit, articles, idx, links, fetch_raised,
               save_raised, fetch_ok, fetcher_failed>>
merge_vars == <<out, mpc, inputs, midx, success_count, results, work, article_count>>
\* History variables: Fetch and Save leave them to the specification that
\* uses the action, which records the step (LiveSpec) or keeps them as they are.
audit_vars == <<fetches, save_failed>>
vars == <<total_machines, batch_size, now, crawl_vars, merge_vars, audit_vars>>

Min(a, b) == IF a < b THEN a ELSE b

\* ------------------------------------------------------------ environment
\* get_all_titles: the titles of the dump, already normalised.
TitleSource == <<"Apple", "Banana", "Cherry">>

\* Titles that occur only as link targets.
LinkTargets == {"Banana", "Cherry", "Durian"}

\* The links get_article_links extracts from a page when the request succeeds.
PageLinks(title) ==
    CASE title = "Apple"  -> {"Banana", "Cherry"}
      [] title = "Banana" -> {"Durian"}
      [] OTHER            -> {}

\* hashlib.md5(title.encode('utf-8')).hexdigest(), as its 32 hex digits.
MD5HexDigest(title) ==
    CASE title = "Apple"  ->
           <<9,15,6,2,9,0,15,4,4,3,6,14,5,10,2,3,5,1,15,1,2,14,0,3,11,6,4,3,3,12,3,12>>
      [] title = "Banana" ->
           <<14,6,15,9,12,3,4,7,6,7,2,13,10,10,14,5,10,2,5,5,7,10,14,1,1,8,15,4,4,10,1,14>>
      [] title = "Cherry" ->
           <<7,11,7,5,13,9,1,13,2,8,5,6,14,9,14,7,4,15,14,7,12,15,11,11,8,5,7,13,12,15,2,15>>
      [] OTHER ->
           <<1,12,4,0,6,5,0,10,1,10,9,11,14,2,12,9,10,6,13,2,9,13,10,14,14,10,1,9,13,5,0,2>>

\* int(hexdigest, 16) % n, digit by digit.
RECURSIVE HexMod(_, _, _, _)
HexMod(digits, i, acc, n) ==
    IF i > Len(digits) THEN acc
    ELSE HexMod(digits, i + 1, (acc * 16 + digits[i]) % n, n)

get_article_hash(title) == MD5HexDigest(title)

Range(f) == {f[i] : i \in DOMAIN f}

AllTitles == Range(TitleSource) \cup LinkTargets

\* article_hash % total_machines, for every title and machine count of the model.
ArticleHashMod ==
    [machines \in 1..MaxMachines |->
        [title \in AllTitles |-> HexMod(get_article_hash(title), 1, 0, machines)]]

\* Variant: machine ids taken as 1-indexed.
should_process_article_off_by_one(title, machine_id, machines) ==
    ArticleHashMod[machines][title] = machine_id + 1

should_process_article(title, machine_id, machines) ==
    ArticleHashMod[machines][title] = machine_id

\* ------------------------------------------------------------------ store
EmptyStore == [articles |-> <<>>, links |-> {}]

TitlesOf(store) == {store.articles[i].title : i \in 1..Len(store.articles)}

HasTitle(store, title) == title \in TitlesOf(store)

\* SELECT id FROM articles WHERE title = ?
ArticleId(store, title) ==
    CHOOSE i \in 1..Len(store.articles) : store.articles[i].title = title

IsProcessed(store, title) ==
    HasTitle(store, title) /\ store.articles[ArticleId(store, title)].processed

\* SELECT to_article_title FROM links WHERE from_article_id = ?
LinksFrom(store, id) == {l[2] : l \in {x \in store.links : x[1] = id}}

LinksOfTitle(store, title) ==
    IF HasTitle(store, title) THEN LinksFrom(store, ArticleId(store, title)) ELSE {}

\* Variant: a plain INSERT on a table without the UNIQUE constraint.
InsertArticleAlways(store, title, processed, ts) ==
    [store EXCEPT !.articles =
        Append(@, [title |-> title, processed |-> processed, last_updated |-> ts])]

\* Variant: ON CONFLICT(title) DO UPDATE SET last_updated = CURRENT_TIMESTAMP.
InsertOrTouchArticle(store, title, processed, ts) ==
    IF HasTitle(store, title)
    THEN [store EXCEPT !.articles[ArticleId(store, title)].last_updated = ts]
    ELSE [store EXCEPT !.articles =
            Append(@, [title |-> title, processed |-> processed, last_updated |-> ts])]

\* INSERT OR IGNORE INTO articles (title[, processed]) VALUES (...)
InsertOrIgnoreArticle(store, title, processed, ts) ==
    IF HasTitle(store, title) THEN store
    ELSE [store EXCEPT !.articles =
            Append(@, [title |-> title, processed |-> processed, last_updated |-> ts])]

\* Variant: the target of a link gets an article row.
InsertLinkAndTarget(store, id, to_title) ==
    LET withRow == IF \E i \in DOMAIN store.articles : store.articles[i].title = to_title
                   THEN store
                   ELSE [store EXCEPT !.articles =
                           Append(@, [title |-> to_title, processed |-> FALSE,
                                      last_updated |-> 0])]
    IN [withRow EXCEPT !.links = @ \cup {<<id, to_title>>}]

\* Variant: a links table with UNIQUE(from_article_id).
InsertLinkOncePerSource(store, id, to_title) ==
    IF \E l \in store.links : l[1] = id THEN store
    ELSE [store EXCEPT !.links = @ \cup {<<id, to_title>>}]

\* INSERT OR IGNORE INTO links (from_article_id, to_article_title) VALUES (?, ?)
InsertOrIgnoreLink(store, id, to_title) ==
    [store EXCEPT !.links = @ \cup {<<id, to_title>>}]

\* Variant: an UPDATE whose WHERE clause matches no row.
MarkProcessedNever(store, id) == store

\* UPDATE articles SET processed = TRUE WHERE id = ?
MarkProcessed(store, id) ==
    [store EXCEPT !.articles[id].processed = TRUE]

\* Variant: a connection in autocommit mode, where rollback undoes nothing.
RollbackKeepsWork(committed, working) == working

\* conn.rollback(): the store goes back to its last committed content.
Rollback(committed, working) == committed

\* All the orders a list(set(...)) can have.
Orderings(S) ==
    {f \in [1..Cardinality(S) -> S] : \A i, j \in DOMAIN f : i # j => f[i] # f[j]}

\* ---------------------------------------------------------------- crawler
Machines == 0..(total_machines - 1)

RECURSIVE InsertLinks(_, _, _, _)
\* for link in links: INSERT OR IGNORE INTO links ..., the first j links.
InsertLinks(store, id, linkseq, j) ==
    IF j = 0 THEN store
    ELSE InsertOrIgnoreLink(InsertLinks(store, id, linkseq, j - 1), id, linkseq[j])

\* The uncommitted content of the store after the first `stop` writes of
\* save_article_links: the article insert, one insert per link, the update.
SaveWorking(store, article_title, linkseq, stop, ts) ==
    IF stop = 0 THEN store
    ELSE LET s1 == InsertOrIgnoreArticle(store, article_title, FALSE, ts)
             article_id == ArticleId(s1, article_title)
             s2 == InsertLinks(s1, article_id, linkseq, Min(stop - 1, Len(linkseq)))
         IN IF stop >= Len(linkseq) + 2 THEN MarkProcessed(s2, article_id) ELSE s2

\* save_article_links: commits when nothing raises; when the statement after
\* the first `stop` writes raises (stop = Len(linkseq) + 2: the commit itself),
\* the except branch rolls back.
save_article_links(store, article_title, linkseq, stop, raises, ts) ==
    IF raises
    THEN Rollback(store, SaveWorking(store, article_title, linkseq, stop, ts))
    ELSE SaveWorking(store, article_title, linkseq, Len(linkseq) + 2, ts)

RECURSIVE SeedTitles(_, _, _, _)
\* executemany('INSERT OR IGNORE INTO articles (title) VALUES (?)', titles)
SeedTitles(store, titles, i, ts) ==
    IF i > Len(titles) THEN store
    ELSE SeedTitles(InsertOrIgnoreArticle(store, titles[i], FALSE, ts), titles, i + 1, ts)

\* Variant: main.py's populate_articles_table, which seeds every title.
populate_all_titles(store, machine_id, machines, ts) ==
    SeedTitles(store, TitleSource, 1, ts)

\* populate_articles_table: seeds the titles of the dump this machine owns.
populate_articles_table(store, machine_id, machines, ts) ==
    LET my_titles == SelectSeq(TitleSource,
                        LAMBDA title : should_process_article(title, machine_id, machines))
    IN SeedTitles(store, my_titles, 1, ts)

\* Variant: without WHERE processed = FALSE.
get_next_articles(store, size) ==
    LET n == IF size < 0 THEN Len(store.articles) ELSE Min(size, Len(store.articles))
    IN [i \in 1..n |-> store.articles[i].title]

\* Variant: ORDER BY id DESC.
get_next_newest_first(store, size) ==
    LET unprocessed == SelectSeq(store.articles, LAMBDA row : ~row.processed)
        n == IF size < 0 THEN Len(unprocessed) ELSE Min(size, Len(unprocessed))
    IN [i \in 1..n |-> unprocessed[Len(unprocessed) + 1 - i].title]

\* SELECT title FROM articles WHERE processed = FALSE ORDER BY id LIMIT ?
\* (SQLite: a negative LIMIT is no limit).
get_next_unprocessed_articles(store, size) ==
    LET unprocessed == SelectSeq(store.articles, LAMBDA row : ~row.processed)
        n == IF size < 0 THEN Len(unprocessed) ELSE Min(size, Len(unprocessed))
    IN [i \in 1..n |-> unprocessed[i].title]

get_stats(store) ==
    [total_articles |-> Len(store.articles),
     processed_articles |->
        Cardinality({i \in 1..Len(store.articles) : store.articles[i].processed}),
     total_links |-> Cardinality(store.links)]

Stopped(m) == pc[m] \in {"stopped", "complete"}

\* The operator runs the crawler of machine m (main up to the constructor,
\* whose init_database creates the file if it is not there). Crawlers run
\* before the merge phase only.
Start(m) ==
    /\ Stopped(m)
    /\ mpc = "idle"
    /\ pc' = [pc EXCEPT ![m] = "main"]
    /\ exists' = [exists EXCEPT ![m] = TRUE]
    /\ UNCHANGED <<total_machines, batch_size, now, db, limit, articles, idx, links,
                   fetch_raised, save_raised, fetch_ok,
                   fetcher_failed, merge_vars>>
    /\ UNCHANGED audit_vars

\* Variant: main takes the initial run while nothing is processed.
MainByProcessedCount(m) ==
    /\ pc[m] = "main"
    /\ IF get_stats(db[m]).processed_articles = 0
       THEN /\ pc' = [pc EXCEPT ![m] = "populate"]
            /\ UNCHANGED limit
       ELSE /\ pc' = [pc EXCEPT ![m] = "batch_run"]
            /\ limit' = [limit EXCEPT ![m] = batch_size]
    /\ UNCHANGED <<total_machines, batch_size, now, db, exists, articles, idx, links,
                   fetch_raised, save_raised, fetch_ok,
                   fetcher_failed, merge_vars>>
    /\ UNCHANGED audit_vars

\* main: initial run or continuation.
Main(m) ==
    /\ pc[m] = "main"
    /\ IF get_stats(db[m]).total_articles = 0
       THEN /\ pc' = [pc EXCEPT ![m] = "populate"]
            /\ UNCHANGED limit
       ELSE /\ pc' = [pc EXCEPT ![m] = "batch_run"]
            /\ limit' = [limit EXCEPT ![m] = batch_size]
    /\ UNCHANGED <<total_machines, batch_size, now, db, exists, articles, idx, links,
                   fetch_raised, save_raised, fetch_ok,
                   fetcher_failed, merge_vars>>
    /\ UNCHANGED audit_vars

\* initial_run: populate_articles_table, then batch_run with its defaults.
InitialRun(m) ==
    /\ pc[m] = "populate"
    /\ db' = [db EXCEPT ![m] = populate_articles_table(@, m, total_machines, now)]
    /\ pc' = [pc EXCEPT ![m] = "batch_run"]
    /\ limit' = [limit EXCEPT ![m] = DefaultBatchSize]
    /\ UNCHANGED <<total_machines, batch_size, now, exists, articles, idx, links,
                   fetch_raised, save_raised, fetch_ok,
                   fetcher_failed, merge_vars>>
    /\ UNCHANGED audit_vars

\* batch_run, top of the while loop; on an empty batch the process ends.
NextBatch(m) ==
    /\ pc[m] = "batch_run"
    /\ LET batch == get_next_unprocessed_articles(db[m], limit[m])
       IN IF batch = <<>>
          THEN /\ pc' = [pc EXCEPT ![m] = "complete"]
               /\ articles' = [articles EXCEPT ![m] = <<>>]
               /\ idx' = [idx EXCEPT ![m] = 0]
               /\ links' = [links EXCEPT ![m] = {}]
               /\ limit' = [limit EXCEPT ![m] = 0]
          ELSE /\ pc' = [pc EXCEPT ![m] = "fetch"]
               /\ articles' = [articles EXCEPT ![m] = batch]
               /\ idx' = [idx EXCEPT ![m] = 1]
               /\ UNCHANGED <<links, limit>>
    /\ save_raised' = [save_raised EXCEPT ![m] = FALSE]
    /\ UNCHANGED <<total_machines, batch_size, now, db, exists,
                   fetch_raised, fetch_ok,
                   fetcher_failed, merge_vars>>
    /\ UNCHANGED audit_vars

\* get_article_links for the current title: the links of the page, or [] when
\* the request raises.
Fetch(m) ==
    /\ pc[m] = "fetch"
    /\ LET article == articles[m][idx[m]]
       IN \/ /\ links' = [links EXCEPT ![m] = PageLinks(article)]
             /\ fetch_raised' = [fetch_raised EXCEPT ![m] = FALSE]
             /\ fetch_ok' = fetch_ok \cup {article}
             /\ UNCHANGED fetcher_failed
          \/ /\ links' = [links EXCEPT ![m] = {}]
             /\ fetch_raised' = [fetch_raised EXCEPT ![m] = TRUE]
             /\ fetcher_failed' = TRUE
             /\ UNCHANGED fetch_ok
    /\ pc' = [pc EXCEPT ![m] = "save"]
    /\ save_raised' = [save_raised EXCEPT ![m] = FALSE]
    /\ UNCHANGED <<total_machines, batch_size, now, db, exists, limit, articles, idx,
                   merge_vars>>

\* Variant: save_article_links without its except branch; the exception
\* ends the process.
SaveAbortsOnRaise(m) ==
    /\ pc[m] = "save"
    /\ LET article == articles[m][idx[m]]
       IN \E linkseq \in Orderings(links[m]) :
            \/ /\ db' = [db EXCEPT ![m] =
                           save_article_links(@, article, linkseq, 0, FALSE, now)]
               /\ save_raised' = [save_raised EXCEPT ![m] = FALSE]
               /\ IF idx[m] < Len(articles[m])
                  THEN /\ idx' = [idx EXCEPT ![m] = @ + 1]
                       /\ pc' = [pc EXCEPT ![m] = "fetch"]
                  ELSE /\ idx' = [idx EXCEPT ![m] = 0]
                       /\ pc' = [pc EXCEPT ![m] = "batch_run"]
            \/ \E stop \in 0..(Len(linkseq) + 2) :
                 /\ db' = [db EXCEPT ![m] =
                             save_article_links(@, article, linkseq, stop, TRUE, now)]
                 /\ save_raised' = [save_raised EXCEPT ![m] = TRUE]
                 /\ idx' = [idx EXCEPT ![m] = 0]
                 /\ pc' = [pc EXCEPT ![m] = "stopped"]
    /\ fetch_raised' = [fetch_raised EXCEPT ![m] = FALSE]
    /\ UNCHANGED <<total_machines, batch_size, now, exists, limit, articles, links,
                   fetch_ok,
                   fetcher_failed, merge_vars>>

\* save_article_links for the current title, the sleep, and the step to the
\* next title of the batch or back to the top of the while loop.
Save(m) ==
    /\ pc[m] = "save"
    /\ LET article == articles[m][idx[m]]
       IN \E linkseq \in Orderings(links[m]) :
            \/ /\ db' = [db EXCEPT ![m] =
                           save_article_links(@, article, linkseq, 0, FALSE, now)]
               /\ save_raised' = [save_raised EXCEPT ![m] = FALSE]
            \/ \E stop \in 0..(Len(linkseq) + 2) :
                 /\ db' = [db EXCEPT ![m] =
                             save_article_links(@, article, linkseq, stop, TRUE, now)]
                 /\ save_raised' = [save_raised EXCEPT ![m] = TRUE]
    /\ IF idx[m] < Len(articles[m])
       THEN /\ idx' = [idx EXCEPT ![m] = @ + 1]
            /\ pc' = [pc EXCEPT ![m] = "fetch"]
       ELSE /\ idx' = [idx EXCEPT ![m] = 0]
            /\ pc' = [pc EXCEPT ![m] = "batch_run"]
    /\ fetch_raised' = [fetch_raised EXCEPT ![m] = FALSE]
    /\ UNCHANGED <<total_machines, batch_size, now, exists, limit, articles, links,
                   fetch_ok,
                   fetcher_failed, merge_vars>>

\* The process dies (kill, power loss, an exception main does not catch);
\* what was not committed is lost.
Crash(m) ==
    /\ ~Stopped(m)
    /\ pc' = [pc EXCEPT ![m] = "stopped"]
    /\ articles' = [articles EXCEPT ![m] = <<>>]
    /\ idx' = [idx EXCEPT ![m] = 0]
    /\ links' = [links EXCEPT ![m] = {}]
    /\ limit' = [limit EXCEPT ![m] = 0]
    /\ fetch_raised' = [fetch_raised EXCEPT ![m] = FALSE]
    /\ save_raised' = [save_raised EXCEPT ![m] = FALSE]
    /\ UNCHANGED <<total_machines, batch_size, now, db, exists, fetch_ok,
                   fetcher_failed, merge_vars>>
    /\ UNCHANGED audit_vars

\* Time passes: CURRENT_TIMESTAMP advances.
Tick ==
    /\ now < MaxTime
    /\ now' = now + 1
    /\ UNCHANGED <<total_machines, batch_size, crawl_vars, merge_vars>>
    /\ UNCHANGED audit_vars

\* ----------------------------------------------------------------- merger
Paths == Machines \cup {NoSuchDb}

\* os.path.exists(input_db)
PathExists(path) == path \in Machines /\ exists[path]

InputLists == UNION {[1..n -> Paths] : n \in 1..MaxInputs}

\* UPDATE articles SET processed = TRUE WHERE title = ? AND processed = FALSE
MarkProcessedByTitle(store, title) ==
    [store EXCEPT !.articles =
        [i \in DOMAIN @ |->
            IF @[i].title = title /\ ~@[i].processed
            THEN [@[i] EXCEPT !.processed = TRUE] ELSE @[i]]]

\* Variant: without the UPDATE that ORs the processed flags.
MergeArticleNoUpdate(output, input, i, ts) ==
    LET row == input.articles[i]
        s1 == InsertOrIgnoreArticle(output, row.title, row.processed, ts)
        input_article_id == ArticleId(input, row.title)
        output_article_id == ArticleId(s1, row.title)
    IN [s1 EXCEPT !.links =
            @ \cup {<<output_article_id, to_title>> :
                        to_title \in LinksFrom(input, input_article_id)}]

\* Variant: the output row takes the processed flag of the input row.
MergeArticleOverwrite(output, input, i, ts) ==
    LET row == input.articles[i]
        s1 == InsertOrIgnoreArticle(output, row.title, row.processed, ts)
        output_article_id == ArticleId(s1, row.title)
        s2 == [s1 EXCEPT !.articles[output_article_id].processed = row.processed]
        input_article_id == ArticleId(input, row.title)
    IN [s2 EXCEPT !.links =
            @ \cup {<<output_article_id, to_title>> :
                        to_title \in LinksFrom(input, input_article_id)}]

\* Variant: a title the output already has is skipped, flag and links.
MergeArticleFirstWins(output, input, i, ts) ==
    LET row == input.articles[i]
        s1 == InsertOrIgnoreArticle(output, row.title, row.processed, ts)
        input_article_id == ArticleId(input, row.title)
        output_article_id == ArticleId(s1, row.title)
    IN IF HasTitle(output, row.title) THEN output
       ELSE [s1 EXCEPT !.links =
                @ \cup {<<output_article_id, to_title>> :
                            to_title \in LinksFrom(input, input_article_id)}]

\* Variant: links attached under the input's article id.
MergeArticleInputId(output, input, i, ts) ==
    LET row == input.articles[i]
        s1 == InsertOrIgnoreArticle(output, row.title, row.processed, ts)
        s2 == IF row.processed THEN MarkProcessedByTitle(s1, row.title) ELSE s1
        input_article_id == ArticleId(input, row.title)
    IN [s2 EXCEPT !.links =
            @ \cup {<<input_article_id, to_title>> :
                        to_title \in LinksFrom(input, input_article_id)}]

\* merge_database, one turn of the loop over the input's articles: the
\* article row, the OR of the processed flags, the links under the output's id.
MergeArticle(output, input, i, ts) ==
    LET row == input.articles[i]
        s1 == InsertOrIgnoreArticle(output, row.title, row.processed, ts)
        s2 == IF row.processed THEN MarkProcessedByTitle(s1, row.title) ELSE s1
        input_article_id == ArticleId(input, row.title)
        output_article_id == ArticleId(s2, row.title)
    IN [s2 EXCEPT !.links =
            @ \cup {<<output_article_id, to_title>> :
                        to_title \in LinksFrom(input, input_article_id)}]

\* Variant: no commit inside the loop.
CheckpointNever(count) == FALSE

\* if article_count % 1000 == 0: output_conn.commit()
Checkpoint(count) == count % CheckpointEvery = 0

RECURSIVE MergeLoop(_, _, _, _, _)
\* The loop of merge_database from article i to article `stop`: st.working
\* is the output as the connection sees it, st.committed what the last
\* commit made durable (article_count is i after article i).
MergeLoop(st, input, i, stop, ts) ==
    IF i > stop THEN st
    ELSE LET w == MergeArticle(st.working, input, i, ts)
             c == IF Checkpoint(i) THEN w ELSE st.committed
         IN MergeLoop([working |-> w, committed |-> c], input, i + 1, stop, ts)

\* merge_database on an input that exists: the committed output and the
\* return value. When it raises while handling article stop + 1 (or at the
\* final commit, stop = number of articles) the except branch rolls back.
merge_database(output, input, stop, raises, ts) ==
    LET st == MergeLoop([working |-> output, committed |-> output], input, 1, stop, ts)
    IN IF raises
       THEN [out |-> Rollback(st.committed, st.working), ret |-> FALSE]
       ELSE [out |-> MergeLoop(st, input, stop + 1, Len(input.articles), ts).working,
             ret |-> TRUE]

\* Variant: success_count counts every call.
CountEveryCall(count, ret) == count + 1

\* if self.merge_database(db): success_count += 1
CountSuccess(count, ret) == IF ret THEN count + 1 ELSE count

\* The operator runs the merger (main and the constructor) on the shards of
\* the campaign, wiki_mapping_machine_0.db and on, once and on a fresh
\* output, when the crawlers have stopped. Other lists of inputs: MergeInit.
MergeStart ==
    /\ mpc = "idle"
    /\ \A m \in Machines : Stopped(m)
    /\ inputs' = [i \in 1..total_machines |-> i - 1]
    /\ mpc' = "merging"
    /\ midx' = 1
    /\ success_count' = 0
    /\ results' = <<>>
    /\ UNCHANGED <<total_machines, batch_size, now, crawl_vars, out, work, article_count>>
    /\ UNCHANGED audit_vars

\* merge_multiple_databases, one turn of its loop: merge_database(db) and
\* the count of the calls that returned True.
MergeNext ==
    /\ mpc = "merging"
    /\ LET input_db == inputs[midx]
       IN \E r \in IF ~PathExists(input_db)
                   THEN {[out |-> out, ret |-> FALSE]}
                   ELSE {merge_database(out, db[input_db], Len(db[input_db].articles),
                                        FALSE, now)}
                        \cup {merge_database(out, db[input_db], stop, TRUE, now) :
                                 stop \in 0..Len(db[input_db].articles)} :
            /\ out' = r.out
            /\ results' = Append(results, r.ret)
            /\ success_count' = CountSuccess(success_count, r.ret)
    /\ IF midx < Len(inputs)
       THEN /\ midx' = midx + 1
            /\ UNCHANGED mpc
       ELSE /\ midx' = 0
            /\ mpc' = "done"
    /\ UNCHANGED <<total_machines, batch_size, now, crawl_vars, inputs, work,
                   article_count>>
    /\ UNCHANGED audit_vars

\* The merger process dies; the output keeps what was committed.
MergeCrash ==
    /\ mpc = "merging"
    /\ mpc' = "crashed"
    /\ LET input_db == inputs[midx]
       IN \E o \in IF ~PathExists(input_db)
                   THEN {out}
                   ELSE {merge_database(out, db[input_db], stop, TRUE, now).out :
                            stop \in 0..Len(db[input_db].articles)} :
            out' = o
    /\ midx' = 0
    /\ inputs' = <<>>
    /\ success_count' = 0
    /\ results' = <<>>
    /\ UNCHANGED <<total_machines, batch_size, now, crawl_vars, work, article_count>>
    /\ UNCHANGED audit_vars

\* ------------------------------------------- the merger, article by article
\* The same code with one step per turn of the loop of merge_database, for
\* inputs of more than CheckpointEvery articles.

\* merge_multiple_databases calls merge_database(db): a missing file returns
\* False, otherwise the connections are opened and article_count = 0.
OpenInput ==
    /\ mpc = "merging"
    /\ IF ~PathExists(inputs[midx])
       THEN /\ results' = Append(results, FALSE)
            /\ success_count' = CountSuccess(success_count, FALSE)
            /\ IF midx < Len(inputs)
               THEN /\ midx' = midx + 1
                    /\ UNCHANGED mpc
               ELSE /\ midx' = 0
                    /\ mpc' = "done"
            /\ UNCHANGED work
       ELSE /\ mpc' = "copying"
            /\ work' = out
            /\ UNCHANGED <<results, success_count, midx>>
    /\ article_count' = 0
    /\ UNCHANGED <<total_machines, batch_size, now, crawl_vars, out, inputs>>
    /\ UNCHANGED audit_vars

\* One turn of the loop: the article, its links, article_count += 1 and the
\* commit of every CheckpointEvery-th turn.
CopyArticle ==
    /\ mpc = "copying"
    /\ article_count < Len(db[inputs[midx]].articles)
    /\ LET w == MergeArticle(work, db[inputs[midx]], article_count + 1, now)
       IN /\ work' = w
          /\ out' = IF Checkpoint(article_count + 1) THEN w ELSE out
    /\ article_count' = article_count + 1
    /\ UNCHANGED <<total_machines, batch_size, now, crawl_vars, mpc, inputs, midx,
                   success_count, results>>
    /\ UNCHANGED audit_vars

\* The end of merge_database: the commit after the loop and return True, or
\* an exception in the try block (in a turn of the loop or in the final
\* commit), the rollback and return False.
CloseInput ==
    /\ mpc = "copying"
    /\ \/ /\ article_count = Len(db[inputs[midx]].articles)
          /\ out' = work
          /\ results' = Append(results, TRUE)
          /\ success_count' = CountSuccess(success_count, TRUE)
       \/ /\ out' = Rollback(out, work)
          /\ results' = Append(results, FALSE)
          /\ success_count' = CountSuccess(success_count, FALSE)
    /\ IF midx < Len(inputs)
       THEN /\ midx' = midx + 1
            /\ mpc' = "merging"
       ELSE /\ midx' = 0
            /\ mpc' = "done"
    /\ work' = EmptyStore
    /\ article_count' = 0
    /\ UNCHANGED <<total_machines, batch_size, now, crawl_vars, inputs>>
    /\ UNCHANGED audit_vars

\* The merger process dies in the loop; the output keeps what was committed.
CopyCrash ==
    /\ mpc = "copying"
    /\ mpc' = "crashed"
    /\ out' = Rollback(out, work)
    /\ work' = EmptyStore
    /\ article_count' = 0
    /\ midx' = 0
    /\ inputs' = <<>>
    /\ success_count' = 0
    /\ results' = <<>>
    /\ UNCHANGED <<total_machines, batch_size, now, crawl_vars>>
    /\ UNCHANGED audit_vars

\* ---------------------------------------------------------- specification
Init ==
    /\ total_machines \in 1..MaxMachines
    /\ batch_size \in (-1)..MaxBatchSize   \* type=int: negative, 0 and positive sizes
    /\ now = 0
    /\ db = [m \in Machines |-> EmptyStore]
    /\ exists = [m \in Machines |-> FALSE]
    /\ pc = [m \in Machines |-> "stopped"]
    /\ limit = [m \in Machines |-> 0]
    /\ articles = [m \in Machines |-> <<>>]
    /\ idx = [m \in Machines |-> 0]
    /\ links = [m \in Machines |-> {}]
    /\ fetch_raised = [m \in Machines |-> FALSE]
    /\ save_raised = [m \in Machines |-> FALSE]
    /\ fetch_ok = {}
    /\ fetcher_failed = FALSE
    /\ out = EmptyStore
    /\ mpc = "idle"
    /\ inputs = <<>>
    /\ midx = 0
    /\ success_count = 0
    /\ results = <<>>
    /\ work = EmptyStore
    /\ article_count = 0
    /\ fetches = [title \in Range(TitleSource) |-> 0]
    /\ save_failed = FALSE

Next ==
    \/ \E m \in Machines : Start(m)
    \/ \E m \in Machines : Main(m)
    \/ \E m \in Machines : InitialRun(m)
    \/ \E m \in Machines : NextBatch(m)
    \/ \E m \in Machines : Fetch(m) /\ UNCHANGED audit_vars
    \/ \E m \in Machines : Save(m) /\ UNCHANGED audit_vars
    \/ \E m \in Machines : Crash(m)
    \/ MergeStart
    \/ MergeNext
    \/ MergeCrash

Spec == Init /\ [][Next]_vars

\* ------------------------------------------- merging stores of any origin
\* The merger is also run on stores of other campaigns (another machine
\* count, another dump, main.py's single store), whose titles overlap.
\* StoreSpace is the crawl stores over two titles: the rows in any order,
\* each unprocessed without links or processed with a set of links.
MergeTitles == {"Apple", "Banana"}

RowStates ==
    {[processed |-> FALSE, targets |-> {}]}
    \cup {[processed |-> TRUE, targets |-> T] : T \in {{}, {"Banana"}, {"Cherry"}}}

StoreOf(order, rows) ==
    [articles |-> [i \in DOMAIN order |->
                     [title |-> order[i], processed |-> rows[order[i]].processed,
                      last_updated |-> 0]],
     links |-> UNION {{<<i, t>> : t \in rows[order[i]].targets} : i \in DOMAIN order}]

StoreSpace ==
    UNION {{StoreOf(order, rows) : order \in Orderings(S), rows \in [S -> RowStates]} :
              S \in SUBSET MergeTitles}

\* The merger has just been started on a fresh output with two such stores.
MergeInit ==
    /\ total_machines = 2
    /\ batch_size = 0
    /\ now = 0
    /\ db \in [Machines -> StoreSpace]
    /\ exists = [m \in Machines |-> TRUE]
    /\ pc = [m \in Machines |-> "stopped"]
    /\ limit = [m \in Machines |-> 0]
    /\ articles = [m \in Machines |-> <<>>]
    /\ idx = [m \in Machines |-> 0]
    /\ links = [m \in Machines |-> {}]
    /\ fetch_raised = [m \in Machines |-> FALSE]
    /\ save_raised = [m \in Machines |-> FALSE]
    /\ fetch_ok = {}
    /\ fetcher_failed = FALSE
    /\ out = EmptyStore
    /\ mpc = "merging"
    /\ inputs \in InputLists
    /\ midx = 1
    /\ success_count = 0
    /\ results = <<>>
    /\ work = EmptyStore
    /\ article_count = 0
    /\ fetches = [title \in Range(TitleSource) |-> 0]
    /\ save_failed = FALSE

NextMerge ==
    \/ MergeNext
    \/ MergeCrash

MergeSpec == MergeInit /\ [][NextMerge]_vars

\* A campaign from its start, or a merge of stores of any origin.
AnySpec == (Init \/ MergeInit) /\ [][Next]_vars

\* ------------------------------------------------------- a long input
\* A shard of LongInputLen articles, more than one checkpoint: "Apple" and
\* the titles "2", "3", ...; its first article, its CheckpointEvery-th and
\* its last are processed and have a link each.
LongMarks == {1, CheckpointEvery, LongInputLen}

LongStore ==
    [articles |-> [i \in 1..LongInputLen |->
                     [title |-> IF i = 1 THEN "Apple" ELSE ToString(i),
                      processed |-> i \in LongMarks, last_updated |-> 0]],
     links |-> {<<i, "Banana">> : i \in LongMarks}]

ShortStores == {s \in StoreSpace : TitlesOf(s) \subseteq {"Apple"}}

\* The merger has just been started on a fresh output with a short store,
\* or a path that names no file, and then the long one.
LongInit ==
    /\ total_machines = 2
    /\ batch_size = 0
    /\ now = 0
    /\ \E s \in ShortStores : db = [m \in Machines |-> IF m = 0 THEN s ELSE LongStore]
    /\ exists = [m \in Machines |-> TRUE]
    /\ pc = [m \in Machines |-> "stopped"]
    /\ limit = [m \in Machines |-> 0]
    /\ articles = [m \in Machines |-> <<>>]
    /\ idx = [m \in Machines |-> 0]
    /\ links = [m \in Machines |-> {}]
    /\ fetch_raised = [m \in Machines |-> FALSE]
    /\ save_raised = [m \in Machines |-> FALSE]
    /\ fetch_ok = {}
    /\ fetcher_failed = FALSE
    /\ out = EmptyStore
    /\ mpc = "merging"
    /\ inputs \in {<<1>>, <<0, 1>>, <<NoSuchDb, 1>>}
    /\ midx = 1
    /\ success_count = 0
    /\ results = <<>>
    /\ work = EmptyStore
    /\ article_count = 0
    /\ fetches = [title \in Range(TitleSource) |-> 0]
    /\ save_failed = FALSE

NextLong ==
    \/ OpenInput
    \/ CopyArticle
    \/ CloseInput
    \/ CopyCrash

LongSpec == LongInit /\ [][NextLong]_vars

\* ------------------------------------------------- one crawler and a clock
\* main.py's setting, one crawler that owns every title, with time passing
\* between its steps.
ClockInit ==
    /\ Init
    /\ total_machines = 1

NextClock ==
    \/ \E m \in Machines : Start(m)
    \/ \E m \in Machines : Main(m)
    \/ \E m \in Machines : InitialRun(m)
    \/ \E m \in Machines : NextBatch(m)
    \/ \E m \in Machines : Fetch(m) /\ UNCHANGED audit_vars
    \/ \E m \in Machines : Save(m) /\ UNCHANGED audit_vars
    \/ \E m \in Machines : Crash(m)
    \/ Tick

ClockSpec == ClockInit /\ [][NextClock]_vars

\* ------------------------------------------------------------- properties
\* The title whose save_article_links the crawler of machine m is at.
Current(m) == articles[m][idx[m]]

\* C1: when get_article_links failed for the current title, the step of the
\* batch that follows (save_article_links and on to the next title) leaves
\* that title with processed = FALSE, so the next batch returns it again.
C1_FailedFetchStaysUnprocessed ==
    [][\A m \in Machines :
          (pc[m] = "save" /\ fetch_raised[m] /\ pc'[m] \in {"fetch", "batch_run"})
          => /\ ~IsProcessed(db'[m], Current(m))
             /\ Current(m) \in Range(get_next_unprocessed_articles(db'[m], -1))]_vars

\* C2: a title of a shard whose every fetch so far has failed is unprocessed;
\* when it is the earliest unprocessed title it is the first title of the
\* batch being worked on; and while a shard has such a title its batch_run
\* (with a batch size other than 0) does not reach COMPLETE.
C2_AlwaysFailingTitleStalls ==
    /\ [](\A m \in Machines : \A X \in TitlesOf(db[m]) \ fetch_ok :
            /\ ~IsProcessed(db[m], X)
            /\ (pc[m] \in {"fetch", "save"} /\ idx[m] = 1
                  /\ X = get_next_unprocessed_articles(db[m], -1)[1])
               => articles[m][1] = X)
    /\ [][\A m \in Machines :
            (pc[m] = "batch_run" /\ limit[m] # 0 /\ TitlesOf(db[m]) \ fetch_ok # {})
            => pc'[m] # "complete"]_vars

\* C3: a save_article_links that raises, wherever it raises, leaves the store
\* exactly as it was before the call (no link row of the call is kept) and
\* the title unprocessed, hence in the backlog of a later batch.
C3_SaveIsAllOrNothing ==
    [][\A m \in Machines :
          (pc[m] = "save" /\ save_raised'[m])
          => /\ db'[m] = db[m]
             /\ db'[m].links = db[m].links
             /\ ~IsProcessed(db'[m], Current(m))
             /\ Current(m) \in Range(get_next_unprocessed_articles(db'[m], -1))]_vars

\* A save that had links to insert has just raised.
C3_Witness ==
    \E m \in Machines :
        /\ save_raised[m]
        /\ Cardinality(links[m]) >= 2
        /\ pc[m] = "fetch"
        /\ ~IsProcessed(db[m], articles[m][idx[m] - 1])

\* C4: every title is owned by exactly one machine id of 0..total_machines-1.
C4_ExactlyOneOwner ==
    \A t \in AllTitles :
        Cardinality({i \in Machines : should_process_article(t, i, total_machines)}) = 1

\* Two machines have populated their shards with the titles they own.
C4_Witness ==
    /\ total_machines = 2
    /\ \A m \in Machines : db[m] # EmptyStore

Populated(m) == pc[m] \in {"batch_run", "fetch", "save", "complete"}

\* C5: no title has an article row in two shards, and once every machine has
\* populated, the shards' titles together are the titles of the dump.
C5_ShardsPartitionTheDump ==
    /\ \A m1, m2 \in Machines :
          m1 # m2 => TitlesOf(db[m1]) \cap TitlesOf(db[m2]) = {}
    /\ (\A m \in Machines : Populated(m))
          => UNION {TitlesOf(db[m]) : m \in Machines} = Range(TitleSource)

\* Several machines have populated and batch steps have recorded links.
C5_Witness ==
    /\ total_machines >= 2
    /\ \A m \in Machines : Populated(m)
    /\ \E m \in Machines : db[m].links # {}
    /\ \E m \in Machines : pc[m] = "complete"

LinksHaveProcessedSource(store) ==
    \A l \in store.links :
        l[1] \in 1..Len(store.articles) /\ store.articles[l[1]].processed

\* C6: in every committed state of every crawl store and of the merge output,
\* the source article of every link row is processed.
C6_LinksOnlyOfProcessed ==
    /\ \A m \in Machines : LinksHaveProcessedSource(db[m])
    /\ LinksHaveProcessedSource(out)

\* The output has links of a title that an earlier input had unprocessed.
C6_Witness ==
    /\ mpc = "done"
    /\ Len(inputs) = 2
    /\ results = <<TRUE, TRUE>>
    /\ HasTitle(db[inputs[1]], "Apple") /\ ~IsProcessed(db[inputs[1]], "Apple")
    /\ LinksOfTitle(db[inputs[2]], "Apple") # {}
    /\ LinksOfTitle(out, "Apple") # {}

\* Every processed row of `before` is in `after`, for the same title and processed.
StaysProcessed(before, after) ==
    \A i \in DOMAIN before.articles :
        before.articles[i].processed
        => /\ i \in DOMAIN after.articles
           /\ after.articles[i].title = before.articles[i].title
           /\ after.articles[i].processed

\* C7: a title that is processed in a store is processed in that store after
\* every step (population, save, rollback, crash, restart, merge).
C7_ProcessedIsMonotonic ==
    [][/\ \A m \in Machines : StaysProcessed(db[m], db'[m])
       /\ StaysProcessed(out, out')]_vars

\* The output got a title as processed and then met it unprocessed in a later
\* input.
C7_Witness ==
    /\ mpc = "done"
    /\ Len(inputs) = 2
    /\ results = <<TRUE, TRUE>>
    /\ IsProcessed(db[inputs[1]], "Apple")
    /\ HasTitle(db[inputs[2]], "Apple") /\ ~IsProcessed(db[inputs[2]], "Apple")
    /\ IsProcessed(out, "Apple")

InputStores == {db[inputs[i]] : i \in DOMAIN inputs}

MergedAll ==
    /\ mpc = "done"
    /\ \A i \in DOMAIN inputs : PathExists(inputs[i]) /\ results[i]

\* C8: after every input of a run (on a fresh output) was merged, the output
\* has a row for a title iff some input has, the row is processed iff some
\* input has the title processed, and the link targets of the title are the
\* union of its link targets in the inputs.
C8_MergeIsUnionByTitle ==
    MergedAll =>
        \A t \in MergeTitles \cup AllTitles :
            /\ HasTitle(out, t) <=> \E s \in InputStores : HasTitle(s, t)
            /\ IsProcessed(out, t) <=> \E s \in InputStores : IsProcessed(s, t)
            /\ LinksOfTitle(out, t) = UNION {LinksOfTitle(s, t) : s \in InputStores}
            /\ Cardinality({i \in DOMAIN out.articles : out.articles[i].title = t}) <= 1

\* Two inputs that have a title under different ids, the first unprocessed,
\* the second processed with links.
C8_Witness ==
    /\ MergedAll
    /\ Len(inputs) = 2
    /\ HasTitle(db[inputs[1]], "Banana") /\ HasTitle(db[inputs[2]], "Banana")
    /\ ArticleId(db[inputs[1]], "Banana") # ArticleId(db[inputs[2]], "Banana")
    /\ ~IsProcessed(db[inputs[1]], "Banana")
    /\ LinksOfTitle(db[inputs[2]], "Banana") # {}

\* C9: merge_database of an input that this run has already merged leaves
\* the output as it is: the same article rows, flags and links.
C9_MergeIsIdempotent ==
    [][(/\ mpc = "merging"
        /\ mpc' \in {"merging", "done"}
        /\ \E j \in 1..(midx - 1) : inputs[j] = inputs[midx] /\ results[j])
       => out' = out]_vars

\* A store with links was merged twice in one run.
C9_Witness ==
    /\ mpc = "done"
    /\ Len(inputs) = 2
    /\ inputs[1] = inputs[2]
    /\ results = <<TRUE, TRUE>>
    /\ out.links # {}
    /\ Len(out.articles) = 2

CountTrue(seq) == Cardinality({i \in DOMAIN seq : seq[i]})

\* C10: merge_database of a missing input returns False and leaves the
\* output as it is, the loop goes on to the next input, and at the end
\* success_count is the number of calls that returned True.
C10_MissingInputIsIsolated ==
    /\ [][(/\ mpc = "merging"
           /\ mpc' \in {"merging", "done"}
           /\ ~PathExists(inputs[midx]))
          => /\ out' = out
             /\ results' = Append(results, FALSE)
             /\ success_count' = success_count
             /\ (midx < Len(inputs) => mpc' = "merging" /\ midx' = midx + 1)]_vars
    /\ [](mpc = "done" => /\ Len(results) = Len(inputs)
                          /\ success_count = CountTrue(results))

\* A run whose first input was missing has merged its second input.
C10_Witness ==
    /\ mpc = "done"
    /\ Len(inputs) = 2
    /\ ~PathExists(inputs[1])
    /\ results = <<FALSE, TRUE>>
    /\ success_count = 1
    /\ out # EmptyStore

\* What the output holds when the first c articles of `input` have been
\* merged into `base`: the rows of base in place, each processed if it was
\* or if one of the c articles has its title and is processed; then the
\* articles among the c whose title is new, in the input's order; the links
\* of base and the links of the c articles under the output's ids.
MergedPrefix(base, input, c, ts) ==
    LET head == SubSeq(input.articles, 1, c)
        doneTitles == {head[i].title : i \in {j \in 1..c : head[j].processed}}
        known == TitlesOf(base)
        IsNew(row) == row.title \notin known
        fresh == SelectSeq(head, IsNew)
        n == Len(base.articles)
        merged ==
            [articles |->
                [i \in 1..(n + Len(fresh)) |->
                    IF i <= n
                    THEN [base.articles[i] EXCEPT
                            !.processed = @ \/ base.articles[i].title \in doneTitles]
                    ELSE [title |-> fresh[i - n].title,
                          processed |-> fresh[i - n].processed,
                          last_updated |-> ts]],
             links |-> base.links]
    IN [merged EXCEPT !.links =
            @ \cup {<<ArticleId(merged, input.articles[l[1]].title), l[2]>> :
                       l \in {k \in input.links : k[1] <= c}}]

RECURSIVE CommittedBefore(_)
\* The output after the first j inputs of the running merge, each of fewer
\* than CheckpointEvery articles: all of an input that returned True,
\* nothing of one that returned False.
CommittedBefore(j) ==
    IF j = 0 THEN EmptyStore
    ELSE IF results[j]
         THEN MergedPrefix(CommittedBefore(j - 1), db[inputs[j]],
                           Len(db[inputs[j]].articles), now)
         ELSE CommittedBefore(j - 1)

\* merge_database has just failed: it returned False or the process died.
MergeFailsHere ==
    /\ mpc = "copying"
    /\ \/ mpc' = "crashed"
       \/ Len(results') = Len(results) + 1 /\ ~results'[Len(results')]

\* C11: when merge_database fails or the merger dies after k articles of an
\* input have been merged, the committed output is the earlier inputs plus
\* exactly the first CheckpointEvery * floor(k / CheckpointEvery) articles of
\* that input: only the tail after the last checkpoint is lost.
C11_MergeCheckpoints ==
    [][MergeFailsHere =>
         out' = MergedPrefix(CommittedBefore(midx - 1), db[inputs[midx]],
                             CheckpointEvery * (article_count \div CheckpointEvery),
                             now)]_vars

\* A merge that failed past a checkpoint: the first CheckpointEvery articles
\* of the long input are in the output, its tail is not.
C11_Witness ==
    /\ mpc = "done"
    /\ results # <<>>
    /\ ~results[Len(results)]
    /\ Len(out.articles) = CheckpointEvery
    /\ Len(out.articles) < LongInputLen
    /\ IsProcessed(out, ToString(CheckpointEvery))

\* The ids of the unprocessed rows of a store.
UnprocessedIds(store) == {i \in DOMAIN store.articles : ~store.articles[i].processed}

\* C12: get_next_unprocessed_articles(limit) with limit >= 1 returns exactly
\* the first min(limit, u) unprocessed titles in insertion order, u the
\* number of unprocessed rows: the k-th title returned is the unprocessed row
\* with exactly k - 1 unprocessed rows before it.
C12_BatchIsOldestUnprocessed ==
    [][\A m \in Machines :
         (pc[m] = "batch_run" /\ pc'[m] \in {"fetch", "complete"} /\ limit[m] >= 1) =>
            LET u == UnprocessedIds(db[m])
                batch == articles'[m]
            IN /\ Len(batch) = Min(limit[m], Cardinality(u))
               /\ \A k \in DOMAIN batch :
                    /\ HasTitle(db[m], batch[k])
                    /\ ArticleId(db[m], batch[k]) \in u
                    /\ Cardinality({j \in u : j < ArticleId(db[m], batch[k])}) = k - 1]_vars

\* A batch of one title taken from a store with a processed row before it
\* and an unprocessed row after it.
C12_Witness ==
    \E m \in Machines :
        /\ pc[m] = "fetch"
        /\ limit[m] = 1
        /\ idx[m] = 1
        /\ \E i, j \in DOMAIN db[m].articles :
             /\ i < ArticleId(db[m], Current(m))
             /\ db[m].articles[i].processed
             /\ j > ArticleId(db[m], Current(m))
             /\ ~db[m].articles[j].processed

\* C13: inserting a title that exists changes nothing. The upsert that opens
\* save_article_links leaves the store as it was (one row for the title, its
\* processed flag, last_updated and position), whatever the time; a title
\* has one row; and seeding a store that has been seeded, at the same time or
\* later, gives the store seeded once.
C13_InsertOfExistingTitleIsNoOp ==
    \A m \in Machines :
        /\ Cardinality(TitlesOf(db[m])) = Len(db[m].articles)
        /\ pc[m] = "save" => SaveWorking(db[m], Current(m), <<>>, 1, now) = db[m]
        /\ \A title \in TitlesOf(db[m]) : \A flag \in BOOLEAN :
             InsertOrIgnoreArticle(db[m], title, flag, now) = db[m]
        /\ LET once == populate_articles_table(db[m], m, total_machines, now)
           IN \A ts \in now..MaxTime :
                populate_articles_table(once, m, total_machines, ts) = once

\* save_article_links is about to upsert a row that was inserted earlier.
C13_Witness ==
    \E m \in Machines :
        /\ pc[m] = "save"
        /\ db[m].articles[ArticleId(db[m], Current(m))].last_updated < now
        /\ \E title \in TitlesOf(db[m]) : IsProcessed(db[m], title)

\* save_article_links has just committed the current title of machine m.
SaveCommitted(m) ==
    /\ pc[m] = "save"
    /\ pc'[m] \in {"fetch", "batch_run"}
    /\ ~save_raised'[m]

\* C14: a successful save_article_links sets processed of the title and
\* refreshes its last_updated to the time of the call.
C14_SaveRefreshesLastUpdated ==
    [][\A m \in Machines :
         SaveCommitted(m) =>
            LET row == db'[m].articles[ArticleId(db[m], Current(m))]
            IN row.processed /\ row.last_updated = now]_vars

\* The part of C14 the code keeps: the title is processed.
SaveSetsProcessed ==
    [][\A m \in Machines :
         SaveCommitted(m) => IsProcessed(db'[m], Current(m))]_vars

\* C15: at its start the crawler populates if and only if the store has no
\* article row, and before any batch; on a store with rows it adds none and
\* goes to the batch loop. A population starts from the empty store and rows
\* are never removed, so a store that got a title is never populated again.
C15_PopulateOnlyWhenEmpty ==
    [][\A m \in Machines :
         /\ (pc[m] = "main" /\ pc'[m] \in {"populate", "batch_run"}) =>
               /\ pc'[m] = "populate" <=> Len(db[m].articles) = 0
               /\ db'[m] = db[m]
         /\ (pc[m] = "populate" /\ pc'[m] = "batch_run") =>
               /\ db[m].articles = <<>>
               /\ articles[m] = <<>>
         /\ Len(db'[m].articles) > Len(db[m].articles) =>
               pc[m] = "populate" /\ db[m].articles = <<>>
         /\ Len(db'[m].articles) >= Len(db[m].articles)]_vars

\* A restarted crawler found rows and went straight to the batch loop, with
\* the configured batch size.
C15_Witness ==
    \E m \in Machines :
        /\ pc[m] = "batch_run"
        /\ db[m].articles # <<>>
        /\ limit[m] = batch_size
        /\ limit[m] # DefaultBatchSize

\* The titles populate_articles_table seeds on machine m.
Seeded(m) == {title \in Range(TitleSource) : should_process_article(title, m, total_machines)}

\* The links of a store by the title of their source.
LinkPairs(store) == {<<store.articles[l[1]].title, l[2]>> : l \in store.links}

\* What the pages of a set of titles link to.
FetchedPairs(titles) == UNION {{<<title, target>> : target \in PageLinks(title)} : title \in titles}

\* batch_run finds no unprocessed title under a limit other than 0.
Completes(m) == pc[m] = "batch_run" /\ pc'[m] = "complete" /\ limit[m] # 0

\* C16: with a fetcher that never fails, when the scheduler has worked
\* through a seeded store every seeded article is processed, the links are
\* exactly the pairs (t, l) with l in fetch(t), and get_stats reports
\* total = number seeded, processed = total, total_links = number of pairs.
C16_EndToEnd ==
    [][\A m \in Machines :
         (Completes(m) /\ ~fetcher_failed) =>
            LET stats == get_stats(db[m])
            IN /\ TitlesOf(db[m]) = Seeded(m)
               /\ \A title \in Seeded(m) : IsProcessed(db[m], title)
               /\ LinkPairs(db[m]) = FetchedPairs(Seeded(m))
               /\ stats.total_articles = Cardinality(Seeded(m))
               /\ stats.processed_articles = stats.total_articles
               /\ stats.total_links = Cardinality(FetchedPairs(Seeded(m)))]_vars

\* Machine 0 of 1 has completed without a failed fetch: three articles,
\* three processed, the two links of Apple and the link of Banana.
C16_Witness ==
    /\ total_machines = 1
    /\ pc[0] = "complete"
    /\ ~fetcher_failed
    /\ get_stats(db[0]) = [total_articles |-> 3, processed_articles |-> 3, total_links |-> 3]
    /\ LinkPairs(db[0]) = {<<"Apple", "Banana">>, <<"Apple", "Cherry">>, <<"Banana", "Durian">>}

\* C17: a save_article_links that fails does not stop batch_run. The title
\* stays unprocessed and the store is as before; the batch is kept and the
\* loop goes to the fetch of the next title of the batch, or after the last
\* title back to the top of the while loop with the same limit; each title is
\* saved right after its own fetch.
C17_SaveFailureDoesNotAbort ==
    [][\A m \in Machines :
         /\ (pc[m] = "save" /\ save_raised'[m]) =>
               /\ db'[m] = db[m]
               /\ ~IsProcessed(db'[m], Current(m))
               /\ articles'[m] = articles[m]
               /\ limit'[m] = limit[m]
               /\ IF idx[m] < Len(articles[m])
                  THEN pc'[m] = "fetch" /\ idx'[m] = idx[m] + 1
                  ELSE pc'[m] = "batch_run"
         /\ (pc[m] = "fetch" /\ pc'[m] = "save") =>
               idx'[m] = idx[m] /\ articles'[m] = articles[m]]_vars

\* The save of Apple failed, Banana after it in the same batch was recorded,
\* and the loop is back at its top.
C17_Witness ==
    \E m \in Machines :
        /\ pc[m] = "batch_run"
        /\ HasTitle(db[m], "Apple") /\ ~IsProcessed(db[m], "Apple")
        /\ IsProcessed(db[m], "Banana")
        /\ ArticleId(db[m], "Apple") < ArticleId(db[m], "Banana")

\* C18: an article is never crawled again once processed. Every fetch is
\* for a title that is unprocessed at the time of the fetch, and no step of
\* a crawler changes the link set of a title that is processed.
C18_ProcessedIsNeverRecrawled ==
    [][\A m \in Machines :
         /\ (pc[m] = "fetch" /\ pc'[m] = "save") => ~IsProcessed(db[m], Current(m))
         /\ \/ db'[m] = db[m]
            \/ \A title \in TitlesOf(db[m]) :
                 IsProcessed(db[m], title) =>
                    /\ IsProcessed(db'[m], title)
                    /\ LinksOfTitle(db'[m], title) = LinksOfTitle(db[m], title)]_vars

\* A restarted crawler is saving a title while its store holds a processed
\* title with links.
C18_Witness ==
    \E m \in Machines :
        /\ pc[m] = "save"
        /\ limit[m] = batch_size
        /\ \E title \in TitlesOf(db[m]) :
             /\ IsProcessed(db[m], title)
             /\ LinksOfTitle(db[m], title) # {}
             /\ title # Current(m)

\* The store of machine m after a run that nothing interrupts, with a
\* fetcher that does not fail: its seeded titles in the order of the dump,
\* all processed, each with the links of its page.
UninterruptedRun(m) ==
    LET seeded == populate_articles_table(EmptyStore, m, total_machines, 0)
    IN [articles |-> [i \in DOMAIN seeded.articles |->
                        [seeded.articles[i] EXCEPT !.processed = TRUE]],
        links |-> UNION {{<<i, target>> : target \in PageLinks(seeded.articles[i].title)} :
                            i \in DOMAIN seeded.articles}]

\* Every article of a committed store is fully recorded (processed, with
\* the links its fetch returned) or untouched (unprocessed, no links).
RecordedOrUntouched ==
    \A m \in Machines : \A title \in TitlesOf(db[m]) :
        IF IsProcessed(db[m], title)
        THEN \/ LinksOfTitle(db[m], title) = PageLinks(title)
             \/ fetcher_failed /\ LinksOfTitle(db[m], title) = {}
        ELSE LinksOfTitle(db[m], title) = {}

\* C19: crashes and restarts lose nothing. Every committed state has each
\* article fully recorded or untouched, and with a fetcher that does not fail
\* the store at COMPLETE is the store of an uninterrupted run.
C19_CrashResilience ==
    /\ []RecordedOrUntouched
    /\ [][\A m \in Machines :
            (pc[m] = "batch_run" /\ pc'[m] = "complete" /\ ~fetcher_failed) =>
               db[m] = UninterruptedRun(m)]_vars

\* C19 for the runs whose batch_run has a limit other than 0.
CrashResilienceUnderNonzeroLimit ==
    /\ []RecordedOrUntouched
    /\ [][\A m \in Machines :
            (Completes(m) /\ ~fetcher_failed) => db[m] = UninterruptedRun(m)]_vars

\* The titles of the article rows of a store, in id order.
TitleSeq(store) == [i \in DOMAIN store.articles |-> store.articles[i].title]

\* C20: crawling never makes an article row of a link target. A link target
\* has a row only if population seeded it, and no step of the batch loop
\* (taking a batch, a fetch, a save) adds, removes or moves an article row.
C20_LinkTargetsAreNotMaterialized ==
    /\ [](\A m \in Machines : \A l \in db[m].links :
            HasTitle(db[m], l[2]) => l[2] \in Seeded(m))
    /\ [][\A m \in Machines :
            pc[m] \in {"batch_run", "fetch", "save"} =>
               TitleSeq(db'[m]) = TitleSeq(db[m])]_vars

\* A store with a dangling link: the target has no article row.
C20_Witness ==
    \E m \in Machines : \E l \in db[m].links :
        /\ ~HasTitle(db[m], l[2])
        /\ TitlesOf(db[m]) = Seeded(m)

\* C21: whenever batch_run has left its loop (COMPLETE) the store has no
\* unprocessed article, processed_articles = total_articles, whatever the
\* batch size: positive, 0 or negative.
C21_CompleteMeansAllProcessed ==
    \A m \in Machines :
        pc[m] = "complete" =>
            /\ UnprocessedIds(db[m]) = {}
            /\ get_stats(db[m]).processed_articles = get_stats(db[m]).total_articles

\* C21 for the limits other than 0, negative ones included.
CompleteUnderNonzeroLimit ==
    [][\A m \in Machines : Completes(m) => UnprocessedIds(db[m]) = {}]_vars

\* batch_run has left its loop under a negative limit.
CompletedUnderNegativeLimit ==
    \E m \in Machines :
        pc[m] = "batch_run" /\ limit[m] < 0 /\ db[m].articles # <<>>
                            /\ UnprocessedIds(db[m]) = {}

\* batch_run is running on machine m.
InBatchRun(m) == pc[m] \in {"batch_run", "fetch", "save"}

\* C22: the limit of every get_next_unprocessed_articles call is the
\* configured --batch-size (and the wait after a fetch the configured
\* --delay, which batch_run receives in the same call), after a population
\* as well as on a store that is resumed.
C22_ConfiguredBatchSizeIsUsed ==
    \A m \in Machines : InBatchRun(m) => limit[m] = batch_size

\* C22 for the runs that resume a store: the step from main to batch_run
\* passes the configured size.
ResumeUsesConfiguredBatchSize ==
    [][\A m \in Machines :
         (pc[m] = "main" /\ pc'[m] = "batch_run") => limit'[m] = batch_size]_vars

\* A store as seen by title: its titles, the processed ones, and its links
\* as (fromTitle, toTitle) pairs.
TitleView(store) ==
    [titles |-> TitlesOf(store),
     processed |-> {title \in TitlesOf(store) : IsProcessed(store, title)},
     links |-> LinkPairs(store)]

\* merge_database of a whole input that raises nothing.
MergeWhole(output, input) ==
    merge_database(output, input, Len(input.articles), FALSE, now).out

\* The output of merging the two inputs of the run in the other order.
MergedInReverse == MergeWhole(MergeWhole(EmptyStore, db[inputs[2]]), db[inputs[1]])

\* C24: merging [A, B] and merging [B, A] into fresh outputs give the same
\* titles, the same processed flag per title and the same (fromTitle,
\* toTitle) links; only ids and the order of the rows may differ.
C24_MergeIsOrderIndependent ==
    (MergedAll /\ Len(inputs) = 2) => TitleView(out) = TitleView(MergedInReverse)

\* Two different stores that share a title with different flags were merged,
\* and the other order gives other ids.
C24_Witness ==
    /\ MergedAll
    /\ Len(inputs) = 2
    /\ out # MergedInReverse
    /\ \E title \in TitlesOf(db[inputs[1]]) \cap TitlesOf(db[inputs[2]]) :
         /\ ~IsProcessed(db[inputs[1]], title)
         /\ IsProcessed(db[inputs[2]], title)
         /\ LinksOfTitle(db[inputs[2]], title) # {}

\* ------------------------------------------- a crawler that keeps running
\* One crawler (machine 0 of 1) that is not killed, with a batch size of at
\* least 1, started on the store an earlier run left: empty, or seeded with
\* each title unprocessed, processed with the links of its page, or
\* processed without links (its fetch had failed).
RowMarks == {"unprocessed", "recorded", "recorded_empty"}

ResumableStore(marks) ==
    LET seeded == populate_articles_table(EmptyStore, 0, 1, 0)
    IN [articles |-> [i \in DOMAIN seeded.articles |->
                        [seeded.articles[i] EXCEPT
                            !.processed = marks[seeded.articles[i].title] # "unprocessed"]],
        links |-> UNION {{<<i, target>> :
                            target \in IF marks[seeded.articles[i].title] = "recorded"
                                       THEN PageLinks(seeded.articles[i].title) ELSE {}} :
                            i \in DOMAIN seeded.articles}]

ResumableStores ==
    {EmptyStore} \cup {ResumableStore(marks) : marks \in [Range(TitleSource) -> RowMarks]}

LiveInit ==
    /\ total_machines = 1
    /\ batch_size \in 1..MaxBatchSize
    /\ now = 0
    /\ \E store \in ResumableStores : db = [m \in Machines |-> store]
    /\ exists = [m \in Machines |-> TRUE]
    /\ pc = [m \in Machines |-> "stopped"]
    /\ limit = [m \in Machines |-> 0]
    /\ articles = [m \in Machines |-> <<>>]
    /\ idx = [m \in Machines |-> 0]
    /\ links = [m \in Machines |-> {}]
    /\ fetch_raised = [m \in Machines |-> FALSE]
    /\ save_raised = [m \in Machines |-> FALSE]
    /\ fetch_ok = {}
    /\ fetcher_failed = FALSE
    /\ out = EmptyStore
    /\ mpc = "idle"
    /\ inputs = <<>>
    /\ midx = 0
    /\ success_count = 0
    /\ results = <<>>
    /\ work = EmptyStore
    /\ article_count = 0
    /\ fetches = [title \in Range(TitleSource) |-> 0]
    /\ save_failed = FALSE

\* Fetch, counted.
LiveFetch(m) ==
    /\ Fetch(m)
    /\ fetches' = [fetches EXCEPT ![Current(m)] = Min(@ + 1, MaxFetches)]
    /\ UNCHANGED save_failed

\* Save, with its failures remembered.
LiveSave(m) ==
    /\ Save(m)
    /\ save_failed' = (save_failed \/ save_raised'[m])
    /\ UNCHANGED fetches

\* save_article_links commits.
SaveCommits(m) == LiveSave(m) /\ ~save_raised'[m]

\* The next step of the running process of machine m.
Running(m) ==
    \/ Main(m)
    \/ InitialRun(m)
    \/ NextBatch(m)
    \/ LiveFetch(m)
    \/ LiveSave(m)

NextLive ==
    \/ \E m \in Machines : Start(m)
    \/ \E m \in Machines : Main(m)
    \/ \E m \in Machines : InitialRun(m)
    \/ \E m \in Machines : NextBatch(m)
    \/ \E m \in Machines : LiveFetch(m)
    \/ \E m \in Machines : LiveSave(m)

\* A process that runs takes its next step; a save_article_links that is
\* attempted again and again commits at some attempt.
LiveSpec ==
    /\ LiveInit
    /\ [][NextLive]_vars
    /\ WF_vars(Running(0))
    /\ SF_vars(SaveCommits(0))

CompletedAfterSaveFailures ==
    /\ pc[0] = "complete"
    /\ save_failed
    /\ \E title \in Seeded(0) : fetches[title] = MaxFetches

====
